---- MODULE Spec2Model ----
(***************************************************************************)
(* A model of localization_asgi.py: the accept-language resolver, the      *)
(* LocalizationMiddleware and the LocalizationApp endpoint /set_locales,   *)
(* run behind the session middleware of tests.py.                          *)
(*                                                                         *)
(* Python strings are sequences of tokens (a token is a run of characters  *)
(* that the code never looks inside, or a separator it splits on); a URL   *)
(* is a sequence of single characters.  The empty string is << >>.         *)
(***************************************************************************)
EXTENDS Integers, Sequences, FiniteSets, TLC

VARIABLES
    config,         \* the immutable configuration of the deployment
    cookie,         \* the session dict the client's cookie carries
    request,        \* the request being processed
    scope,          \* the ASGI scope of the request being processed
    pc,             \* where the request is in the middleware stack
    error,          \* the exception that aborted the request, or "none"
    response,       \* the response of the endpoint
    last_set,       \* history: the `locales` parameter _set_locales last saw
    hdr,            \* resolver: the raw accept-language header
    parsed,         \* resolver: the list given to _get_sorted_locales
    hdr_result,     \* resolver: what _get_locales returned or raised
    rpc,            \* resolver: "call" or "return"
    redirect,       \* redirect guard: the `redirect` query parameter
    location,       \* redirect guard: what _get_redirect_url returned
    upc             \* redirect guard: "call" or "return"

mainVars == <<config, cookie, request, scope, pc, error, response, last_set>>
resolveVars == <<hdr, parsed, hdr_result, rpc>>
redirectVars == <<redirect, location, upc>>
vars == <<config, cookie, request, scope, pc, error, response, last_set,
          hdr, parsed, hdr_result, rpc, redirect, location, upc>>

----------------------------------------------------------------------------
(* Bounds of the model *)

\* entries of an accept-language header with at most one ";q="
MaxEntries == 3
\* ";q=" occurrences in one entry of a header of MaxMultiEntries entries
MaxQ == 2
MaxMultiEntries == 1
\* characters of a `redirect` parameter
MaxUrlLen == 5
\* tokens of a `locales` parameter
MaxLocalesLen == 2

----------------------------------------------------------------------------
(* Python strings and lists *)

\* A missing header or query parameter: the lookup raises KeyError.
Absent == <<"KeyError">>

RECURSIVE SeqsUpTo(_, _)
SeqsUpTo(S, n) ==
    IF n = 0 THEN {<< >>}
    ELSE LET shorter == SeqsUpTo(S, n - 1)
         IN  shorter \cup {Append(s, x) : s \in {t \in shorter : Len(t) = n - 1}, x \in S}

Reverse(s) == [i \in 1..Len(s) |-> s[Len(s) + 1 - i]]

RECURSIVE Concat(_)
Concat(ss) == IF ss = << >> THEN << >> ELSE Head(ss) \o Concat(Tail(ss))

RECURSIVE Join(_, _)
Join(ss, sep) ==
    IF Len(ss) = 0 THEN << >>
    ELSE IF Len(ss) = 1 THEN ss[1]
    ELSE ss[1] \o <<sep>> \o Join(Tail(ss), sep)

\* str.find of a one-token separator from position `from` on; 0 when not found
RECURSIVE Find(_, _, _)
Find(s, sep, from) ==
    IF from > Len(s) THEN 0
    ELSE IF s[from] = sep THEN from
    ELSE Find(s, sep, from + 1)

\* str.split(sep): every occurrence splits, "" splits to [""]
RECURSIVE split(_, _)
split(s, sep) ==
    LET i == Find(s, sep, 1)
    IN  IF i = 0 THEN <<s>>
        ELSE <<SubSeq(s, 1, i - 1)>> \o split(SubSeq(s, i + 1, Len(s)), sep)

\* str.strip()
RECURSIVE lstrip(_)
lstrip(s) == IF s # << >> /\ Head(s) = " " THEN lstrip(Tail(s)) ELSE s

strip(s) == Reverse(lstrip(Reverse(lstrip(s))))

----------------------------------------------------------------------------
(* float() and the comparison of floats *)

FloatTokens == {"0.5", "1.0", "nan"}

\* a float: not-a-number, or a number of tenths
Float(t) ==
    IF t = "nan" THEN [nan |-> TRUE, v |-> 0]
    ELSE IF t = "0.5" THEN [nan |-> FALSE, v |-> 5]
    ELSE [nan |-> FALSE, v |-> 10]

DefaultWeight == Float("1.0")

\* float(s): a ValueError unless s is one float literal
py_float(s) ==
    IF Len(s) = 1 /\ s[1] \in FloatTokens
    THEN [exc |-> "none", val |-> Float(s[1])]
    ELSE [exc |-> "ValueError", val |-> DefaultWeight]

\* x < y on floats: false whenever either is not a number
Lt(x, y) == ~x.nan /\ ~y.nan /\ x.v < y.v

----------------------------------------------------------------------------
(* The locale resolver: _get_locales_and_weights, _get_sorted_locales,      *)
(* _get_locales                                                             *)

\* The None of an entry whose weight did not parse.
None == [exc |-> "none", none |-> TRUE, id |-> << >>, w |-> DefaultWeight]

Entry(id, w) == [exc |-> "none", none |-> FALSE, id |-> id, w |-> w]

\* Faulty variant: the ValueError of float() is not caught
_get_locales_and_weights_uncaught(entry) ==
    LET parts == split(entry, ";q=")
        weight == IF Len(parts) = 2
                  THEN py_float(strip(parts[2]))
                  ELSE [exc |-> "none", val |-> DefaultWeight]
    IN  IF weight.exc = "ValueError"
        THEN [exc |-> "ValueError", none |-> TRUE, id |-> << >>, w |-> DefaultWeight]
        ELSE Entry(strip(parts[1]), weight.val)

\* _get_locales_and_weights(entry): (locale, weight), or None on a ValueError
_get_locales_and_weights(entry) ==
    LET parts == split(entry, ";q=")
        weight == IF Len(parts) = 2
                  THEN py_float(strip(parts[2]))
                  ELSE [exc |-> "none", val |-> DefaultWeight]
    IN  IF weight.exc = "ValueError" THEN None
        ELSE Entry(strip(parts[1]), weight.val)

\* list.sort's count_run: the length of the run the list starts with, and
\* whether it is strictly descending
RECURSIVE RunEnd(_, _, _)
RunEnd(a, n, descending) ==
    IF n >= Len(a) THEN n
    ELSE IF Lt(a[n + 1].w, a[n].w) = descending THEN RunEnd(a, n + 1, descending)
    ELSE n

count_run(a) ==
    IF Len(a) = 1 THEN [n |-> 1, descending |-> FALSE]
    ELSE LET descending == Lt(a[2].w, a[1].w)
         IN  [n |-> RunEnd(a, 2, descending), descending |-> descending]

\* list.sort's binarysort: where the pivot goes among a[l+1..r] (0-based l, r)
RECURSIVE BinarySearch(_, _, _, _)
BinarySearch(a, pivot, l, r) ==
    IF l >= r THEN l
    ELSE LET p == l + ((r - l) \div 2)
         IN  IF Lt(pivot.w, a[p + 1].w)
             THEN BinarySearch(a, pivot, l, p)
             ELSE BinarySearch(a, pivot, p + 1, r)

\* list.sort's binarysort: a[1..start] is sorted, the rest is inserted into it
RECURSIVE binarysort(_, _)
binarysort(a, start) ==
    IF start >= Len(a) THEN a
    ELSE LET pivot == a[start + 1]
             l == BinarySearch(a, pivot, 0, start)
         IN  binarysort(SubSeq(a, 1, l) \o <<pivot>> \o SubSeq(a, l + 1, start)
                            \o SubSeq(a, start + 2, Len(a)),
                        start + 1)

\* list.sort() by the weight, ascending, of a list shorter than 64 (one run)
list_sort(a) ==
    IF Len(a) < 2 THEN a
    ELSE LET run == count_run(a)
             b == IF run.descending
                  THEN Reverse(SubSeq(a, 1, run.n)) \o SubSeq(a, run.n + 1, Len(a))
                  ELSE a
         IN  binarysort(b, run.n)

\* sorted(a, key=lambda x: x[1], reverse=True): list.sort reverses the list,
\* sorts it ascending and reverses it again
sorted_reverse(a) == Reverse(list_sort(Reverse(a)))

SelectSeqValid(lw) == SelectSeq(lw, LAMBDA x : ~x.none)

\* _get_sorted_locales(locales_weights)
_get_sorted_locales(locales_weights) ==
    LET valid_entries == SelectSeqValid(locales_weights)
        s == sorted_reverse(valid_entries)
    IN  [i \in 1..Len(s) |-> s[i].id]

\* the list comprehension of _get_locales
LocalesAndWeights(header) ==
    LET entries == split(header, ",")
    IN  [i \in 1..Len(entries) |-> _get_locales_and_weights(entries[i])]

\* _get_locales(request): the list, or the exception that escapes
_get_locales(header) ==
    IF header = Absent THEN [exc |-> "none", val |-> << >>]
    ELSE LET lw == LocalesAndWeights(header)
         IN  IF \E i \in 1..Len(lw) : lw[i].exc # "none"
             THEN [exc |-> (CHOOSE e \in {lw[i].exc : i \in 1..Len(lw)} : e # "none"),
                   val |-> << >>]
             ELSE [exc |-> "none", val |-> _get_sorted_locales(lw)]

----------------------------------------------------------------------------
(* The resolver's inputs *)

LocaleParts == {<<"en">>, <<" ", "de">>, <<"fr">>}
WeightTexts == {<<"0.5">>, <<"1.0">>, <<"nan">>, <<"abc">>}
QParts == {<<";q=">> \o w : w \in WeightTexts}

\* entries with at most n occurrences of ";q="
EntriesWithQ(n) == {l \o Concat(qs) : l \in LocaleParts, qs \in SeqsUpTo(QParts, n)}

HeaderInputs ==
    {Absent}
    \cup {Join(es, ",") : es \in SeqsUpTo(EntriesWithQ(1), MaxEntries)}
    \cup {Join(es, ",") : es \in SeqsUpTo(EntriesWithQ(MaxQ), MaxMultiEntries)}

InitResolve ==
    /\ hdr \in HeaderInputs
    /\ parsed = << >>
    /\ hdr_result = [exc |-> "none", val |-> << >>]
    /\ rpc = "call"

\* one call of _get_locales
GetLocales ==
    /\ rpc = "call"
    /\ rpc' = "return"
    /\ parsed' = IF hdr = Absent THEN << >> ELSE LocalesAndWeights(hdr)
    /\ hdr_result' = _get_locales(hdr)
    /\ UNCHANGED hdr

MainOff ==
    /\ config = [session_middleware |-> TRUE, fallback |-> TRUE, default_locales |-> << >>]
    /\ cookie = [has_locales |-> FALSE, locales |-> << >>]
    /\ request = [path |-> "", header |-> Absent, locales |-> Absent, redirect |-> Absent]
    /\ scope = [has_session |-> FALSE, session |-> [has_locales |-> FALSE, locales |-> << >>],
                has_locales |-> FALSE, locales |-> << >>,
                has_translations |-> FALSE, translations |-> [class |-> "", languages |-> << >>]]
    /\ pc = "off"
    /\ error = "none"
    /\ response = [status |-> 0, location |-> << >>]
    /\ last_set = [called |-> FALSE, locales |-> Absent]

----------------------------------------------------------------------------
(* The redirect guard: LocalizationApp._get_redirect_url                    *)

UrlChars == {"a", "b", ":", "/", "?", "["}

\* the characters of UrlChars a scheme may consist of
SchemeChars == {"a", "b"}

\* request.url.netloc: the authority the request was sent to
RequestNetloc == <<"a">>

\* default_redirect_url
default_redirect_url == <<"/">>

\* urllib.parse._splitnetloc(url, 2): the netloc ends at the first "/" or "?"
NetlocEnd(url) ==
    LET ends == {i \in 3..Len(url) : url[i] \in {"/", "?"}}
    IN  IF ends = {} THEN Len(url) + 1 ELSE CHOOSE i \in ends : \A j \in ends : i <= j

\* URL(url).netloc, which starlette reads off urllib.parse.urlsplit(url): the
\* netloc, or the ValueError of an unbalanced "["
urlsplit_netloc(url) ==
    LET i == Find(url, ":", 1)
        rest == IF i > 1 /\ \A k \in 1..(i - 1) : url[k] \in SchemeChars
                THEN SubSeq(url, i + 1, Len(url))
                ELSE url
    IN  IF Len(rest) >= 2 /\ rest[1] = "/" /\ rest[2] = "/"
        THEN LET netloc == SubSeq(rest, 3, NetlocEnd(rest) - 1)
             IN  IF \E k \in 1..Len(netloc) : netloc[k] = "["
                 THEN [exc |-> "ValueError", netloc |-> << >>]
                 ELSE [exc |-> "none", netloc |-> netloc]
        ELSE [exc |-> "none", netloc |-> << >>]

\* Faulty variant: a URL is taken for relative when it starts with "/"
_get_redirect_url_by_prefix(redirect_param) ==
    IF redirect_param = Absent THEN default_redirect_url
    ELSE LET redirect_to == urlsplit_netloc(redirect_param)
         IN  IF (redirect_param # << >> /\ redirect_param[1] = "/")
                \/ (redirect_to.exc = "none"
                    /\ (redirect_to.netloc = << >> \/ redirect_to.netloc = RequestNetloc))
             THEN redirect_param
             ELSE default_redirect_url

\* LocalizationApp._get_redirect_url(request)
_get_redirect_url(redirect_param) ==
    IF redirect_param = Absent THEN default_redirect_url
    ELSE LET redirect_to == urlsplit_netloc(redirect_param)
         IN  IF redirect_to.exc = "none"
                /\ (redirect_to.netloc = << >> \/ redirect_to.netloc = RequestNetloc)
             THEN redirect_param
             ELSE default_redirect_url

RedirectInputs == {Absent} \cup SeqsUpTo(UrlChars, MaxUrlLen)

InitRedirect ==
    /\ redirect \in RedirectInputs
    /\ location = << >>
    /\ upc = "call"

\* one call of _get_redirect_url
GetRedirectUrl ==
    /\ upc = "call"
    /\ upc' = "return"
    /\ location' = _get_redirect_url(redirect)
    /\ UNCHANGED redirect

\* The resolver alone, on every header of HeaderInputs.
ResolveInit ==
    /\ InitResolve
    /\ MainOff
    /\ redirect = Absent /\ location = << >> /\ upc = "off"

ResolveStep == GetLocales /\ UNCHANGED mainVars /\ UNCHANGED redirectVars

NextResolve == ResolveStep

SpecResolve == ResolveInit /\ [][NextResolve]_vars

\* The redirect guard alone, on every `redirect` parameter of RedirectInputs.
RedirectInit ==
    /\ InitRedirect
    /\ MainOff
    /\ hdr = Absent /\ parsed = << >> /\ hdr_result = [exc |-> "none", val |-> << >>]
    /\ rpc = "off"

RedirectStep == GetRedirectUrl /\ UNCHANGED mainVars /\ UNCHANGED resolveVars

NextRedirect == RedirectStep

SpecRedirect == RedirectInit /\ [][NextRedirect]_vars

----------------------------------------------------------------------------
(* The request path: session middleware (tests.py), LocalizationMiddleware, *)
(* the routes /dump (tests.py) and /set_locales (LocalizationApp)           *)

\* a session dict: the key "locales" and its value
EmptySession == [has_locales |-> FALSE, locales |-> << >>]

NoTranslations == [class |-> "", languages |-> << >>]

\* a scope as the server hands it over: no session, locales or translations
NewScope == [has_session |-> FALSE, session |-> EmptySession,
             has_locales |-> FALSE, locales |-> << >>,
             has_translations |-> FALSE, translations |-> NoTranslations]

NoRequest == [path |-> "", header |-> Absent, locales |-> Absent, redirect |-> Absent]

\* no /set_locales request has reached the endpoint yet
NeverSet == [called |-> FALSE, locales |-> Absent]

NoResponse == [status |-> 0, location |-> << >>]

\* status_code of LocalizationApp
status_code == 303

\* the locales gettext finds a catalog (.mo file) of the domain for
CatalogLocales == {<<"en">>}

\* _default_read_locales(scope)
_default_read_locales(sc) ==
    IF sc.has_session /\ sc.session.has_locales THEN sc.session.locales ELSE << >>

\* Faulty variant: the locales are added to the stored ones
_default_write_locales_extend(sc, locales) ==
    IF sc.has_session
    THEN [exc |-> "none",
          scope |-> [sc EXCEPT !.session = [has_locales |-> TRUE,
                                            locales |-> sc.session.locales \o locales]]]
    ELSE [exc |-> "KeyError", scope |-> sc]

\* _default_write_locales(scope, locales): the scope and the exception raised
_default_write_locales(sc, locales) ==
    IF sc.has_session
    THEN [exc |-> "none",
          scope |-> [sc EXCEPT !.session = [has_locales |-> TRUE, locales |-> locales]]]
    ELSE [exc |-> "KeyError", scope |-> sc]

\* Faulty variant: an empty `locales` parameter counts as a missing one
_get_locales_param_or_default(cfg, req) ==
    IF req.locales = Absent \/ req.locales = << >>
    THEN cfg.default_locales
    ELSE split(req.locales, ",")

\* LocalizationApp._get_locales(request)
_get_locales_param(cfg, req) ==
    IF req.locales = Absent THEN cfg.default_locales ELSE split(req.locales, ",")

\* Faulty variant: an empty list is passed on as no list, and gettext takes the
\* languages of the environment
translation_env(languages, fallback) ==
    LET langs == IF languages = << >> THEN << <<"C">> >> ELSE languages
    IN  IF \E i \in 1..Len(langs) : langs[i] \in CatalogLocales
        THEN [exc |-> "none", val |-> [class |-> "GNUTranslations", languages |-> langs]]
        ELSE IF fallback
        THEN [exc |-> "none", val |-> [class |-> "NullTranslations", languages |-> langs]]
        ELSE [exc |-> "FileNotFoundError", val |-> NoTranslations]

\* gettext.translation(domain, localedir, languages, class_, fallback)
translation(languages, fallback) ==
    IF \E i \in 1..Len(languages) : languages[i] \in CatalogLocales
    THEN [exc |-> "none", val |-> [class |-> "GNUTranslations", languages |-> languages]]
    ELSE IF fallback
    THEN [exc |-> "none", val |-> [class |-> "NullTranslations", languages |-> languages]]
    ELSE [exc |-> "FileNotFoundError", val |-> NoTranslations]

\* Faulty variant: the header's locales follow the preferred ones
dispatch_locales_merged(sc, req) ==
    _default_read_locales(sc) \o _get_locales(req.header).val

\* the value of scope["locales"] in LocalizationMiddleware.dispatch:
\* self.read_preferred(request.scope) or _get_locales(request)
dispatch_locales(sc, req) ==
    LET preferred == _default_read_locales(sc)
    IN  IF preferred # << >> THEN preferred ELSE _get_locales(req.header).val

(* The requests a client sends *)

ReqHeaders ==
    {Absent, <<"fr">>, <<"en", ";q=", "0.5", ",", " ", "de", ";q=", "1.0">>}

ReqRedirects == {Absent, <<"/", "b">>, <<"a", ":", "/", "/", "b">>}

LocalesParams == {Absent} \cup SeqsUpTo({"en", "de", ","}, MaxLocalesLen)

Requests ==
    {[path |-> "/dump", header |-> h, locales |-> Absent, redirect |-> Absent] :
        h \in ReqHeaders}
    \cup {[path |-> "/set_locales", header |-> h, locales |-> l, redirect |-> r] :
            h \in ReqHeaders, l \in LocalesParams, r \in ReqRedirects}

Configs ==
    [session_middleware : BOOLEAN, fallback : BOOLEAN,
     default_locales : {<< >>, << <<"fr">> >>}]

Init ==
    /\ config \in Configs
    /\ cookie = EmptySession
    /\ request = NoRequest
    /\ scope = NewScope
    /\ pc = "idle"
    /\ error = "none"
    /\ response = NoResponse
    /\ last_set = NeverSet
    /\ hdr = Absent /\ parsed = << >> /\ hdr_result = [exc |-> "none", val |-> << >>]
    /\ rpc = "off"
    /\ redirect = Absent /\ location = << >> /\ upc = "off"

\* the client sends a request with its session cookie
Request(req) ==
    /\ pc = "idle"
    /\ request' = req
    /\ scope' = NewScope
    /\ error' = "none"
    /\ response' = NoResponse
    /\ pc' = IF config.session_middleware THEN "session" ELSE "localization"
    /\ UNCHANGED <<config, cookie, last_set>>

\* PlainTextSessionMiddleware.dispatch up to call_next: the session is the
\* cookie's, or {} without a cookie
SessionLoad ==
    /\ pc = "session"
    /\ scope' = [scope EXCEPT !.has_session = TRUE, !.session = cookie]
    /\ pc' = "localization"
    /\ UNCHANGED <<config, cookie, request, error, response, last_set>>

\* LocalizationMiddleware.dispatch up to call_next
Dispatch ==
    /\ pc = "localization"
    /\ LET locales == dispatch_locales(scope, request)
           t == translation(locales, config.fallback)
       IN  IF t.exc = "none"
           THEN /\ scope' = [scope EXCEPT !.has_locales = TRUE, !.locales = locales,
                                          !.has_translations = TRUE, !.translations = t.val]
                /\ pc' = "route"
                /\ error' = "none"
           ELSE /\ scope' = [scope EXCEPT !.has_locales = TRUE, !.locales = locales]
                /\ pc' = "raised"
                /\ error' = t.exc
    /\ UNCHANGED <<config, cookie, request, response, last_set>>

\* dump_scope(request)
DumpScope ==
    /\ pc = "route"
    /\ request.path = "/dump"
    /\ response' = [status |-> 200, location |-> << >>]
    /\ pc' = "respond"
    /\ UNCHANGED <<config, cookie, request, scope, error, last_set>>

\* LocalizationApp._set_locales(request)
SetLocales ==
    /\ pc = "route"
    /\ request.path = "/set_locales"
    /\ last_set' = [called |-> TRUE, locales |-> request.locales]
    /\ LET w == _default_write_locales(scope, _get_locales_param(config, request))
       IN  IF w.exc = "none"
           THEN /\ scope' = w.scope
                /\ response' = [status |-> status_code,
                                location |-> _get_redirect_url(request.redirect)]
                /\ pc' = "respond"
                /\ error' = "none"
           ELSE /\ scope' = w.scope
                /\ response' = NoResponse
                /\ pc' = "raised"
                /\ error' = w.exc
    /\ UNCHANGED <<config, cookie, request>>

\* PlainTextSessionMiddleware.dispatch after call_next: the session goes back
\* into the cookie; without the middleware the response goes out as it is
Respond ==
    /\ pc = "respond"
    /\ cookie' = IF config.session_middleware THEN scope.session ELSE cookie
    /\ pc' = "idle"
    /\ request' = NoRequest
    /\ scope' = NewScope
    /\ response' = NoResponse
    /\ UNCHANGED <<config, error, last_set>>

\* the exception leaves every middleware: no cookie is set
Abort ==
    /\ pc = "raised"
    /\ pc' = "idle"
    /\ request' = NoRequest
    /\ scope' = NewScope
    /\ response' = NoResponse
    /\ error' = "none"
    /\ UNCHANGED <<config, cookie, last_set>>

Next ==
    \/ (\E req \in Requests : Request(req)) /\ UNCHANGED <<resolveVars, redirectVars>>
    \/ SessionLoad /\ UNCHANGED <<resolveVars, redirectVars>>
    \/ Dispatch /\ UNCHANGED <<resolveVars, redirectVars>>
    \/ DumpScope /\ UNCHANGED <<resolveVars, redirectVars>>
    \/ SetLocales /\ UNCHANGED <<resolveVars, redirectVars>>
    \/ Respond /\ UNCHANGED <<resolveVars, redirectVars>>
    \/ Abort /\ UNCHANGED <<resolveVars, redirectVars>>

Spec == Init /\ [][Next]_vars

----------------------------------------------------------------------------
(* The claims *)

\* the stored preference a request arrives with
StoredPreference ==
    IF config.session_middleware /\ cookie.has_locales THEN cookie.locales ELSE << >>

\* the middleware has filled the scope and the endpoint has not yet run
AfterDispatch == pc = "route" \/ (pc = "raised" /\ error = "FileNotFoundError")

\* C1: the locale list dispatch places in the scope is the list the read hook
\* returned when that list is not empty, and the list resolved from the
\* accept-language header otherwise; the two are never merged.
C1_PreferredOrHeader ==
    scope.has_locales =>
        scope.locales = IF StoredPreference # << >>
                        THEN StoredPreference
                        ELSE _get_locales(request.header).val

C1_Witness ==
    /\ pc = "route"
    /\ StoredPreference = << <<"de">> >>
    /\ request.header = <<"fr">>
    /\ scope.locales = << <<"de">> >>

\* the authority of a URL that parses
Authority(url) == urlsplit_netloc(url).netloc

RedirectAccepted(r) ==
    /\ r # Absent
    /\ urlsplit_netloc(r).exc = "none"
    /\ Authority(r) \in {<< >>, RequestNetloc}

\* C2: the redirect location is the `redirect` parameter verbatim only if it
\* has no authority or the authority of the request URL; in every other case
\* (absent, unparsable, another authority) it is the default redirect URL, so
\* no location has a foreign authority.
C2_SameOriginRedirect ==
    upc = "return" =>
        /\ location = IF RedirectAccepted(redirect) THEN redirect ELSE default_redirect_url
        /\ urlsplit_netloc(location).exc = "none"
        /\ Authority(location) \in {<< >>, RequestNetloc}

C2_Witness ==
    /\ upc = "return"
    /\ redirect = <<"/", "/", "b">>
    /\ location = default_redirect_url

\* the entries of the header that survived, in the order of the header
Surviving == SelectSeqValid(parsed)

IndexPermutations(n) ==
    {p \in [1..n -> 1..n] : \A i, j \in 1..n : p[i] = p[j] => i = j}

\* C3: the resolved list holds the surviving entries' identifiers ordered by
\* weight descending, and two entries of equal weight keep the order they had
\* in the header.
C3_SortedStable ==
    (rpc = "return" /\ hdr # Absent) =>
        /\ Len(hdr_result.val) = Len(Surviving)
        /\ \E p \in IndexPermutations(Len(Surviving)) :
            /\ \A i \in 1..Len(Surviving) : hdr_result.val[i] = Surviving[p[i]].id
            /\ \A i, j \in 1..Len(Surviving) :
                i < j =>
                    /\ ~Lt(Surviving[p[i]].w, Surviving[p[j]].w)
                    /\ (~Surviving[p[i]].w.nan /\ Surviving[p[i]].w = Surviving[p[j]].w)
                        => p[i] < p[j]

\* the entries of the header and, of an entry, the number of ";q=" in it and
\* the text after the only one
HdrEntries == split(hdr, ",")

QCount(e) == Len(split(e, ";q=")) - 1

WeightParses(e) ==
    LET t == strip(split(e, ";q=")[2]) IN Len(t) = 1 /\ t[1] \in FloatTokens

Count(s, x) == Cardinality({i \in 1..Len(s) : s[i] = x})

RequestedLocales(l) == IF l = Absent THEN config.default_locales ELSE split(l, ",")

\* C5: among requests that share a session, the stored preference is the
\* locale list of the last /set_locales request the endpoint served (the split
\* `locales` parameter, or the default locales without one), whatever other
\* requests passed through the middleware since; after a /set_locales without
\* `locales` and with the default (empty) default locales, the next request
\* takes its locales from the header again.
C5_LastSetLocalesStored ==
    (config.session_middleware /\ last_set.called) =>
        /\ pc = "idle" =>
            cookie = [has_locales |-> TRUE, locales |-> RequestedLocales(last_set.locales)]
        /\ (AfterDispatch /\ last_set.locales = Absent /\ config.default_locales = << >>) =>
            scope.locales = _get_locales(request.header).val

C5_Witness ==
    /\ pc = "route"
    /\ config.session_middleware
    /\ config.default_locales = << >>
    /\ last_set = [called |-> TRUE, locales |-> Absent]
    /\ request.path = "/dump"
    /\ request.header = <<"fr">>
    /\ scope.locales = << <<"fr">> >>

\* the endpoint was invoked for the request being processed
EndpointInvoked ==
    /\ request.path = "/set_locales"
    /\ pc \in {"respond", "raised"}
    /\ scope.has_translations

\* C6: when the scope has no session, the default write hook used by
\* /set_locales creates it and stores the locale list in it instead of failing.
C6_WriteCreatesSession ==
    (EndpointInvoked /\ ~config.session_middleware) =>
        /\ error = "none"
        /\ scope.has_session
        /\ scope.session = [has_locales |-> TRUE,
                            locales |-> RequestedLocales(request.locales)]

\* gettext finds no catalog for the locales of the scope and may not fall back
CatalogFails ==
    /\ ~config.fallback
    /\ \A i \in 1..Len(scope.locales) : scope.locales[i] \notin CatalogLocales

\* C7: with the default hooks a request is aborted if and only if the catalog
\* construction fails, and then the downstream handler is not invoked; nothing
\* else (a missing header, parameter, stored preference or session) aborts it.
C7_OnlyCatalogFailureAborts ==
    /\ pc = "raised" => (error = "FileNotFoundError" /\ CatalogFails /\ ~scope.has_translations)
    /\ pc \in {"route", "respond"} => ~CatalogFails

\* C8: whenever the downstream handler is invoked the scope holds `locales`,
\* a list, and `translations`, a catalog built from that same list, whatever
\* the stored preference and the header are, both absent included.
C8_ScopeFilledBeforeDownstream ==
    pc = "route" =>
        /\ scope.has_locales
        /\ scope.has_translations
        /\ scope.translations.class \in {"GNUTranslations", "NullTranslations"}
        /\ scope.translations.languages = scope.locales

C8_Witness ==
    /\ pc = "route"
    /\ request.header = Absent
    /\ StoredPreference = << >>
    /\ scope.has_locales /\ scope.locales = << >>
    /\ scope.translations = [class |-> "NullTranslations", languages |-> << >>]

\* C9: an entry is split at its first ";q=" only: the identifier is the
\* stripped text before it, the weight is parsed from all the text after it,
\* and the weight is 1.0 only when the entry has no ";q=" at all.
C9_SplitAtFirstQ ==
    (rpc = "return" /\ hdr # Absent) =>
        \A i \in 1..Len(HdrEntries) :
            LET e == HdrEntries[i]
                k == Find(e, ";q=", 1)
                id == strip(IF k = 0 THEN e ELSE SubSeq(e, 1, k - 1))
                weight == IF k = 0
                          THEN [exc |-> "none", val |-> DefaultWeight]
                          ELSE py_float(strip(SubSeq(e, k + 1, Len(e))))
            IN  parsed[i] = IF weight.exc = "none" THEN Entry(id, weight.val) ELSE None

\* C10: a /set_locales request with a present but empty `locales` parameter
\* stores the list [""], not [] and not the default locales; every later
\* request of the session then gets [""] as its locale list, whatever its
\* accept-language header, until the next /set_locales.
C10_EmptyParameterStoresEmptyLocale ==
    (config.session_middleware /\ last_set = [called |-> TRUE, locales |-> << >>]) =>
        /\ pc = "idle" => cookie = [has_locales |-> TRUE, locales |-> << << >> >>]
        /\ AfterDispatch => scope.locales = << << >> >>

C10_Witness ==
    /\ pc = "route"
    /\ config.session_middleware
    /\ last_set = [called |-> TRUE, locales |-> << >>]
    /\ request.path = "/dump"
    /\ request.header = <<"fr">>
    /\ scope.locales = << << >> >>

====
